---- MODULE Spec2Model ----
(***************************************************************************)
(* OTP issuance / verification and session tokens of the ASN Location Swap *)
(* API (src/main.py).  Each HTTP request is served by a handler; handlers  *)
(* run concurrently and share the "otp" collection and the wall clock.     *)
(* Every store call (delete_many, insert, find_one) and every clock read   *)
(* is one atomic step; nothing spans two of them.  The database is         *)
(* configured (db is not None).                                            *)
(***************************************************************************)
EXTENDS Integers, Sequences, FiniteSets, Bags

(* ------------------------------ bounds -------------------------------- *)
\* handlers that may be in flight at once
MaxWorkers == 2
\* requests served in one behaviour
MaxRequests == 3

(* --------------------------- program constants ------------------------ *)
ACCESS_TOKEN_EXPIRE_SECONDS == 604800
OTP_EXPIRE_SECONDS == 600
CODE_WIDTH == 6
SECRET_KEY == "super-secret-key-change-me"

Workers == 1..MaxWorkers
Emails == {"a@x.com", "b@x.com"}
\* the values random.randint(0, 999999) is drawn from in the model
RandInts == {7, 123456}
\* the instants at which the wall clock is read: the start, and the last second
\* of each lifetime that began at the start together with the second after it
Instants ==
    {0, OTP_EXPIRE_SECONDS, OTP_EXPIRE_SECONDS + 1,
     ACCESS_TOKEN_EXPIRE_SECONDS, ACCESS_TOKEN_EXPIRE_SECONDS + 1}

\* store:   the "otp" collection, a bag of documents
\* now:     the wall clock, in whole seconds
\* proc:    each handler's position in its request and its local variables
\* served:  how many requests have been accepted
\* issued:  per email, how many request-otp calls have inserted their record
\* minted:  per email, how many session tokens verify-otp has returned
\* sequential: whether one client sends each request after the previous response
\* hist:    that client's transcript: the calls made and their responses, in order
VARIABLES store, now, proc, served, issued, minted, sequential, hist
vars == <<store, now, proc, served, issued, minted, sequential, hist>>

(* ------------------------------ helpers ------------------------------- *)
RECURSIVE Pow10(_)
Pow10(k) == IF k = 0 THEN 1 ELSE 10 * Pow10(k - 1)

\* f"{n:06d}": the decimal digits of n, zero-padded to six
Format06(n) == [i \in 1..CODE_WIDTH |-> (n \div Pow10(CODE_WIDTH - i)) % 10]

IssuedCodes == {Format06(n) : n \in RandInts}
\* what a client may type into verify-otp
SubmittedCodes == IssuedCodes

NoRec == [email |-> "", code |-> <<>>, purpose |-> "", expires_at |-> 0]
NoToken == [sub |-> "", iat |-> 0, exp |-> 0, sig |-> <<>>]

\* HTTPException(status_code, detail) and the 200 response
Ok200 == [status_code |-> 200, detail |-> "ok"]
InvalidCode == [status_code |-> 400, detail |-> "Kode OTP tidak valid"]
CodeExpired == [status_code |-> 400, detail |-> "Kode OTP kedaluwarsa"]
MissingAuth == [status_code |-> 401, detail |-> "Missing Authorization header"]
InvalidToken == [status_code |-> 401, detail |-> "Invalid or expired token"]

(* ------------------------- the otp collection ------------------------- *)
\* the documents of the collection that belong to email e
DocsOf(s, e) == {d \in BagToSet(s) : d.email = e}

RECURSIVE SumCopies(_, _)
SumCopies(s, D) ==
    IF D = {} THEN 0
    ELSE LET d == CHOOSE x \in D : TRUE
         IN CopiesIn(d, s) + SumCopies(s, D \ {d})

\* how many documents of email e the collection holds
CountOf(s, e) == SumCopies(s, DocsOf(s, e))

\* a delete_many whose filter matches every document
delete_many_all(s, e) == EmptyBag

\* db["otp"].delete_many({"email": e})
delete_many(s, e) ==
    LET keep == {d \in BagToSet(s) : d.email # e}
    IN [d \in keep |-> s[d]]

\* create_document("otp", doc): one insert
create_document(s, doc) == s (+) SetToBag({doc})

\* a find_one whose filter leaves out the code
find_one_by_email(s, e, c) == {d \in BagToSet(s) : d.email = e}

\* the documents db["otp"].find_one({"email": e, "code": c}) may return
find_one(s, e, c) == {d \in BagToSet(s) : d.email = e /\ d.code = c}

\* an expiry test that also rejects at the boundary
is_expired_inclusive(t, rec) == t >= rec.expires_at

\* line 143: int(time.time()) > int(rec.get("expires_at", 0))
is_expired(t, rec) == t > rec.expires_at

\* line 129: expires_at = int(time.time()) + 600
otp_expiry(t) == t + OTP_EXPIRE_SECONDS

(* --------------------------- session tokens --------------------------- *)
\* the HS256 signature: a function of the payload and the key
Sign(sub, iat, exp, key) == <<sub, iat, exp, key>>

jwt_encode(sub, iat, exp, key) ==
    [sub |-> sub, iat |-> iat, exp |-> exp, sig |-> Sign(sub, iat, exp, key)]

\* create_access_token(email) at clock value t
create_access_token(email, t) ==
    jwt_encode(email, t, t + ACCESS_TOKEN_EXPIRE_SECONDS, SECRET_KEY)

\* a decode that rejects a token in the second it expires
jwt_valid_strict(tok, key, t) ==
    /\ tok.sig = Sign(tok.sub, tok.iat, tok.exp, key)
    /\ ~(tok.exp <= t)

\* jwt.decode accepts: the signature verifies and exp is not in the past
jwt_valid(tok, key, t) ==
    /\ tok.sig = Sign(tok.sub, tok.iat, tok.exp, key)
    /\ ~(tok.exp < t)

\* a string the code takes apart is the sequence of its characters
UpperCase == <<"A", "B", "C", "D", "E", "F", "G", "H", "I", "J", "K", "L", "M",
               "N", "O", "P", "Q", "R", "S", "T", "U", "V", "W", "X", "Y", "Z">>
LowerCase == <<"a", "b", "c", "d", "e", "f", "g", "h", "i", "j", "k", "l", "m",
               "n", "o", "p", "q", "r", "s", "t", "u", "v", "w", "x", "y", "z">>

\* one character of str.lower(): a capital letter becomes its small letter
LowerChar(ch) ==
    IF \E i \in DOMAIN UpperCase : UpperCase[i] = ch
    THEN LowerCase[CHOOSE i \in DOMAIN UpperCase : UpperCase[i] = ch]
    ELSE ch

\* scheme.lower()
Lower(s) == [i \in DOMAIN s |-> LowerChar(s[i])]

\* the schemes a client sends: "Bearer", "BEARER", "Basic"
SchemeBearer == <<"B", "e", "a", "r", "e", "r">>
SchemeBEARER == <<"B", "E", "A", "R", "E", "R">>
SchemeBasic == <<"B", "a", "s", "i", "c">>

NoHeader == [scheme |-> <<>>, token |-> NoToken]

\* get_current_user(authorization) at clock value t
get_current_user(authorization, t) ==
    IF authorization = NoHeader
    THEN [resp |-> MissingAuth, sub |-> ""]
    ELSE IF Lower(authorization.scheme) # <<"b", "e", "a", "r", "e", "r">>
    THEN [resp |-> InvalidToken, sub |-> ""]
    ELSE IF ~jwt_valid(authorization.token, SECRET_KEY, t)
    THEN [resp |-> InvalidToken, sub |-> ""]
    ELSE [resp |-> Ok200, sub |-> authorization.token.sub]

(* ------------------------------ handlers ------------------------------ *)
Idle == [pc |-> "idle", email |-> "", code |-> <<>>, expires_at |-> 0, at |-> 0, rec |-> NoRec]

\* a new request is served by the first free handler; the sequential client
\* waits for the response to its previous request
Free(w) ==
    /\ proc[w].pc = "idle"
    /\ \A v \in Workers : v < w => proc[v].pc # "idle"
    /\ sequential => \A v \in Workers : proc[v].pc = "idle"
    /\ served < MaxRequests

Entry(op, email, code, resp, at, token, scheme) ==
    [op |-> op, email |-> email, code |-> code, resp |-> resp, at |-> at,
     token |-> token, scheme |-> scheme]

\* the transcript after a response
Record(entry) == IF sequential THEN Append(hist, entry) ELSE hist

InitState ==
    /\ store = EmptyBag
    /\ now = 0
    /\ proc = [w \in Workers |-> Idle]
    /\ served = 0
    /\ issued = [e \in Emails |-> 0]
    /\ minted = [e \in Emails |-> 0]
    /\ hist = <<>>

\* the wall clock advances
Tick ==
    /\ \E t \in Instants : t > now /\ now' = t
    /\ UNCHANGED <<store, proc, served, issued, minted, sequential, hist>>

\* request_otp, lines 125-129: draw the code, read the clock
RequestStart(w) ==
    /\ Free(w)
    /\ \E e \in Emails, n \in RandInts :
          proc' = [proc EXCEPT ![w] = [pc |-> "request_delete", email |-> e,
                       code |-> Format06(n), expires_at |-> otp_expiry(now),
                       at |-> now, rec |-> NoRec]]
    /\ served' = served + 1
    /\ UNCHANGED <<store, now, issued, minted, sequential, hist>>

\* a request_otp that does not delete the earlier records
RequestDelete_Skip(w) ==
    /\ proc[w].pc = "request_delete"
    /\ proc' = [proc EXCEPT ![w].pc = "request_insert"]
    /\ UNCHANGED <<store, now, served, issued, minted, sequential, hist>>

\* request_otp, line 130
RequestDelete(w) ==
    /\ proc[w].pc = "request_delete"
    /\ store' = delete_many(store, proc[w].email)
    /\ proc' = [proc EXCEPT ![w].pc = "request_insert"]
    /\ UNCHANGED <<now, served, issued, minted, sequential, hist>>

\* request_otp, lines 131-133: insert and return the code
RequestInsert(w) ==
    /\ proc[w].pc = "request_insert"
    /\ store' = create_document(store,
                    [email |-> proc[w].email, code |-> proc[w].code,
                     purpose |-> "login", expires_at |-> proc[w].expires_at])
    /\ issued' = [issued EXCEPT ![proc[w].email] = @ + 1]
    /\ hist' = Record(Entry("request-otp", proc[w].email, proc[w].code, Ok200,
                            proc[w].at, NoToken, <<>>))
    /\ proc' = [proc EXCEPT ![w] = Idle]
    /\ UNCHANGED <<now, served, minted, sequential>>

\* verify_otp, lines 140-142: find_one, 400 when nothing matches
VerifyFind(w) ==
    /\ Free(w)
    /\ \E e \in Emails, c \in SubmittedCodes :
          IF find_one(store, e, c) = {}
          THEN /\ hist' = Record(Entry("verify-otp", e, c, InvalidCode, 0, NoToken, <<>>))
               /\ UNCHANGED proc
          ELSE /\ \E rec \in find_one(store, e, c) :
                     proc' = [proc EXCEPT ![w] = [pc |-> "verify_check", email |-> e,
                                  code |-> c, expires_at |-> 0, at |-> 0, rec |-> rec]]
               /\ UNCHANGED hist
    /\ served' = served + 1
    /\ UNCHANGED <<store, now, issued, minted, sequential>>

\* verify_otp, line 143: read the clock, compare with expires_at
VerifyCheck(w) ==
    /\ proc[w].pc = "verify_check"
    /\ proc' = [proc EXCEPT ![w].pc = IF is_expired(now, proc[w].rec)
                                      THEN "verify_delete_expired"
                                      ELSE "verify_delete_valid",
                            ![w].at = now]
    /\ UNCHANGED <<store, now, served, issued, minted, sequential, hist>>

\* an expired path that raises without deleting
VerifyDeleteExpired_Keep(w) ==
    /\ proc[w].pc = "verify_delete_expired"
    /\ hist' = Record(Entry("verify-otp", proc[w].email, proc[w].code, CodeExpired,
                            proc[w].at, NoToken, <<>>))
    /\ proc' = [proc EXCEPT ![w] = Idle]
    /\ UNCHANGED <<store, now, served, issued, minted, sequential>>

\* verify_otp, lines 144-145: delete and 400
VerifyDeleteExpired(w) ==
    /\ proc[w].pc = "verify_delete_expired"
    /\ store' = delete_many(store, proc[w].email)
    /\ hist' = Record(Entry("verify-otp", proc[w].email, proc[w].code, CodeExpired,
                            proc[w].at, NoToken, <<>>))
    /\ proc' = [proc EXCEPT ![w] = Idle]
    /\ UNCHANGED <<now, served, issued, minted, sequential>>

\* a valid path that does not consume the record
VerifyDeleteValid_Keep(w) ==
    /\ proc[w].pc = "verify_delete_valid"
    /\ proc' = [proc EXCEPT ![w].pc = "verify_mint"]
    /\ UNCHANGED <<store, now, served, issued, minted, sequential, hist>>

\* verify_otp, line 146
VerifyDeleteValid(w) ==
    /\ proc[w].pc = "verify_delete_valid"
    /\ store' = delete_many(store, proc[w].email)
    /\ proc' = [proc EXCEPT ![w].pc = "verify_mint"]
    /\ UNCHANGED <<now, served, issued, minted, sequential, hist>>

\* verify_otp, lines 147-148: mint the token and return it
VerifyMint(w) ==
    /\ proc[w].pc = "verify_mint"
    /\ minted' = [minted EXCEPT ![proc[w].email] = @ + 1]
    /\ hist' = Record(Entry("verify-otp", proc[w].email, proc[w].code, Ok200,
                            proc[w].at, create_access_token(proc[w].email, now), <<>>))
    /\ proc' = [proc EXCEPT ![w] = Idle]
    /\ UNCHANGED <<store, now, served, issued, sequential>>

\* the tokens the client has received from verify-otp
Received == {hist[i].token : i \in {j \in DOMAIN hist : hist[j].op = "verify-otp"
                                         /\ hist[j].resp = Ok200}}

\* a received token with its subject changed and its signature kept
Tampered(tok) == {[tok EXCEPT !.sub = e] : e \in Emails \ {tok.sub}}

\* the Authorization headers the client may send
Headers ==
    {NoHeader}
        \cup {[scheme |-> s, token |-> t] : s \in {SchemeBearer, SchemeBEARER, SchemeBasic},
                                           t \in Received}
        \cup {[scheme |-> SchemeBearer, token |-> t] : t \in UNION {Tampered(m) : m \in Received}}

\* GET /api/me, lines 151-153, with get_current_user, lines 72-82
Me(w) ==
    /\ Free(w)
    /\ \E h \in Headers :
          LET r == get_current_user(h, now)
          IN hist' = Record(Entry("me", r.sub, <<>>, r.resp, now, h.token, h.scheme))
    /\ served' = served + 1
    /\ UNCHANGED <<store, now, proc, issued, minted, sequential>>

\* one step of a handler
Handler(w) ==
    \/ RequestStart(w)
    \/ RequestDelete(w)
    \/ RequestInsert(w)
    \/ VerifyFind(w)
    \/ VerifyCheck(w)
    \/ VerifyDeleteExpired(w)
    \/ VerifyDeleteValid(w)
    \/ VerifyMint(w)
    \/ Me(w)

Next == Tick \/ \E w \in Workers : Handler(w)

\* requests from many clients, handled concurrently
Init == InitState /\ sequential = FALSE

Spec == Init /\ [][Next]_vars

\* one client, each request sent after the previous response
InitSeq == InitState /\ sequential = TRUE

SpecSeq == InitSeq /\ [][Next]_vars

(* ======================= properties of the model ======================= *)
AllIdle == \A w \in Workers : proc[w].pc = "idle"

IsRequest(h, e) == h.op = "request-otp" /\ h.email = e
IsVerify(h, e, c) == h.op = "verify-otp" /\ h.email = e /\ h.code = c

\* no request-otp for e strictly between positions i and j of the transcript
NoRequestBetween(e, i, j) == \A k \in (i + 1)..(j - 1) : ~IsRequest(hist[k], e)

\* position j holds the first verify-otp(e, c) after the request-otp at position i,
\* and no other request-otp for e lies between them
FirstVerifyAfter(i, j) ==
    /\ i < j
    /\ hist[i].op = "request-otp"
    /\ IsVerify(hist[j], hist[i].email, hist[i].code)
    /\ NoRequestBetween(hist[i].email, i, j)
    /\ \A k \in (i + 1)..(j - 1) : ~IsVerify(hist[k], hist[i].email, hist[i].code)

\* the document a request-otp that read the clock at t stores
DocOf(h) == [email |-> h.email, code |-> h.code, purpose |-> "login",
             expires_at |-> h.at + OTP_EXPIRE_SECONDS]

\* the last response is the one at position i
JustReturned(i) == Len(hist) = i /\ AllIdle

(* ------------------------------- C1 ----------------------------------- *)
\* C1: in every reachable state the otp store holds at most one passcode record
\* per identifier, also while request-otp and verify-otp are handled concurrently.
C1_AtMostOnePerIdentifier == \A e \in Emails : CountOf(store, e) <= 1

(* ------------------------------- C2 ----------------------------------- *)
\* two request-otp calls for one identifier, one directly after the other
Consecutive(i) ==
    /\ i + 1 <= Len(hist)
    /\ hist[i].op = "request-otp"
    /\ IsRequest(hist[i + 1], hist[i].email)

\* after the second call returns, its record is the only one of the identifier
C2_OneRecord ==
    \A i \in DOMAIN hist :
        Consecutive(i) /\ JustReturned(i + 1)
            => /\ CountOf(store, hist[i].email) = 1
               /\ DocsOf(store, hist[i].email) = {DocOf(hist[i + 1])}

\* C2 as stated: two request-otp calls in sequence leave exactly one record, with
\* the second code, and a verify-otp with the first code then fails with InvalidCode.
C2_FirstCodeNeverVerifies ==
    /\ C2_OneRecord
    /\ \A i \in DOMAIN hist : \A k \in DOMAIN hist :
          /\ Consecutive(i)
          /\ k > i + 1
          /\ IsVerify(hist[k], hist[i].email, hist[i].code)
          /\ NoRequestBetween(hist[i].email, i + 1, k)
          => hist[k].resp = InvalidCode

\* C2 amended: two request-otp calls in sequence leave exactly one record, with the
\* second code, and a verify-otp with the first code then fails with InvalidCode
\* whenever the second call drew a code different from the first.
C2_SecondReplacesFirst ==
    /\ C2_OneRecord
    /\ \A i \in DOMAIN hist : \A k \in DOMAIN hist :
          /\ Consecutive(i)
          /\ hist[i].code # hist[i + 1].code
          /\ k > i + 1
          /\ IsVerify(hist[k], hist[i].email, hist[i].code)
          /\ NoRequestBetween(hist[i].email, i + 1, k)
          => hist[k].resp = InvalidCode

C2_Witness ==
    /\ Len(hist) = 3
    /\ Consecutive(1)
    /\ hist[1].code # hist[2].code
    /\ IsVerify(hist[3], hist[1].email, hist[1].code)
    /\ hist[3].resp = InvalidCode
    /\ CountOf(store, hist[1].email) = 1

(* ------------------------------- C3 ----------------------------------- *)
\* C3: after request-otp(e) returned c, the first verify-otp(e, c) made while
\* now <= expires_at returns a session token and leaves no record for e; every later
\* verify-otp(e, c) before a new request-otp for e fails with InvalidCode.
C3_SingleUse ==
    \A i \in DOMAIN hist : \A j \in DOMAIN hist :
        FirstVerifyAfter(i, j) /\ hist[j].at <= hist[i].at + OTP_EXPIRE_SECONDS
            => /\ hist[j].resp = Ok200
               /\ hist[j].token # NoToken
               /\ hist[j].token.sub = hist[i].email
               /\ JustReturned(j) => CountOf(store, hist[i].email) = 0
               /\ \A k \in DOMAIN hist :
                     /\ k > j
                     /\ IsVerify(hist[k], hist[i].email, hist[i].code)
                     /\ NoRequestBetween(hist[i].email, i, k)
                     => hist[k].resp = InvalidCode

C3_Witness ==
    /\ Len(hist) = 3
    /\ FirstVerifyAfter(1, 2)
    /\ hist[2].resp = Ok200
    /\ IsVerify(hist[3], hist[1].email, hist[1].code)
    /\ hist[3].resp = InvalidCode

(* ------------------------------- C4 ----------------------------------- *)
\* C4: a verify-otp(e, c) that finds the matching record with now > expires_at fails
\* with CodeExpired, mints no token and deletes every record of e, so that the next
\* verify-otp(e, c) fails with InvalidCode.
C4_Expired ==
    \A i \in DOMAIN hist : \A j \in DOMAIN hist :
        FirstVerifyAfter(i, j) /\ hist[j].at > hist[i].at + OTP_EXPIRE_SECONDS
            => /\ hist[j].resp = CodeExpired
               /\ hist[j].token = NoToken
               /\ JustReturned(j) => CountOf(store, hist[i].email) = 0
               /\ \A k \in DOMAIN hist :
                     /\ k > j
                     /\ IsVerify(hist[k], hist[i].email, hist[i].code)
                     /\ NoRequestBetween(hist[i].email, i, k)
                     => hist[k].resp = InvalidCode

C4_Witness ==
    /\ Len(hist) = 3
    /\ FirstVerifyAfter(1, 2)
    /\ hist[2].at = hist[1].at + 601
    /\ hist[2].resp = CodeExpired
    /\ minted[hist[1].email] = 0
    /\ IsVerify(hist[3], hist[1].email, hist[1].code)
    /\ hist[3].resp = InvalidCode

(* ------------------------------- C5 ----------------------------------- *)
\* C5: a request-otp at time t stores expires_at = t + 600, and the verify-otp that
\* finds that record succeeds if and only if now <= expires_at: a token at
\* now = t + 600, CodeExpired at now = t + 601.
C5_Boundary ==
    /\ \A i \in DOMAIN hist :
          hist[i].op = "request-otp" /\ JustReturned(i)
              => DocsOf(store, hist[i].email) = {DocOf(hist[i])}
    /\ \A i \in DOMAIN hist : \A j \in DOMAIN hist :
          FirstVerifyAfter(i, j)
              => /\ hist[j].resp = Ok200 <=> hist[j].at <= hist[i].at + 600
                 /\ hist[j].resp = CodeExpired <=> hist[j].at > hist[i].at + 600
                 /\ hist[j].at = hist[i].at + 600 => hist[j].token # NoToken
                 /\ hist[j].at = hist[i].at + 601 => hist[j].resp = CodeExpired

C5_Witness ==
    \E i \in DOMAIN hist : \E j \in DOMAIN hist :
        /\ FirstVerifyAfter(i, j)
        /\ hist[j].at = hist[i].at + 600
        /\ hist[j].resp = Ok200

(* ------------------------------- C6 ----------------------------------- *)
\* position k presents, as "Bearer <token>", the token returned at position j
Presents(j, k) ==
    /\ j < k
    /\ hist[j].op = "verify-otp"
    /\ hist[j].resp = Ok200
    /\ hist[k].op = "me"
    /\ hist[k].scheme = SchemeBearer
    /\ hist[k].token = hist[j].token

\* C6: a token minted for X at time t, presented as "Bearer <token>", makes
\* get_current_user return X and no other identifier at every time from t to
\* t + 604800; at t + 604800 + 1 it is rejected with 401.
C6_TokenLifetime ==
    /\ \A j \in DOMAIN hist : \A k \in DOMAIN hist :
          Presents(j, k)
              => /\ hist[j].token.iat <= hist[k].at /\ hist[k].at <= hist[j].token.iat + 604800
                     => hist[k].resp = Ok200 /\ hist[k].email = hist[j].email
                 /\ hist[k].at = hist[j].token.iat + 604800 + 1
                     => hist[k].resp.status_code = 401 /\ hist[k].email = ""
                 /\ hist[k].resp = Ok200 => hist[k].email = hist[j].email
    /\ \A k \in DOMAIN hist :
          hist[k].op = "me" /\ hist[k].resp = Ok200
              => hist[k].token \in Received /\ hist[k].email = hist[k].token.sub

C6_Witness ==
    \E j \in DOMAIN hist : \E k \in DOMAIN hist :
        /\ Presents(j, k)
        /\ hist[k].at = hist[j].token.iat + 604800
        /\ hist[k].resp = Ok200
        /\ hist[k].email = hist[j].email

(* ------------------------------- C7 ----------------------------------- *)
\* every call about e between positions i and k was a verify-otp with a code
\* other than the one the request-otp at position i returned
OnlyWrongCodes(i, k) ==
    \A m \in (i + 1)..k :
        hist[m].email = hist[i].email
            => hist[m].op = "verify-otp" /\ hist[m].code # hist[i].code

\* C7: a verify-otp for which no record matches fails with InvalidCode and leaves the
\* store unchanged: the outstanding record keeps its code and expires_at and still
\* verifies afterwards, however many wrong codes were submitted.
C7_NoMatchNoChange ==
    \A i \in DOMAIN hist : \A k \in DOMAIN hist :
        i <= k /\ hist[i].op = "request-otp" /\ OnlyWrongCodes(i, k)
            => /\ \A m \in (i + 1)..k :
                     hist[m].email = hist[i].email
                         => hist[m].resp = InvalidCode /\ hist[m].token = NoToken
               /\ JustReturned(k)
                     => /\ DocsOf(store, hist[i].email) = {DocOf(hist[i])}
                        /\ CountOf(store, hist[i].email) = 1
               /\ /\ k + 1 <= Len(hist)
                  /\ IsVerify(hist[k + 1], hist[i].email, hist[i].code)
                  /\ hist[k + 1].at <= hist[i].at + OTP_EXPIRE_SECONDS
                  => hist[k + 1].resp = Ok200

C7_Witness ==
    /\ Len(hist) = 3
    /\ hist[1].op = "request-otp"
    /\ hist[2].op = "verify-otp"
    /\ hist[2].email = hist[1].email
    /\ hist[2].code # hist[1].code
    /\ hist[2].resp = InvalidCode
    /\ IsVerify(hist[3], hist[1].email, hist[1].code)
    /\ hist[3].resp = Ok200

(* ------------------------------- C8 ----------------------------------- *)
\* a step that changes the records of y is taken by a handler serving y
C8_Frame ==
    \A y \in Emails :
        (\E d \in DocsOf(store, y) \cup DocsOf(store', y) :
              CopiesIn(d, store') # CopiesIn(d, store))
            => \E w \in Workers : proc'[w] # proc[w] /\ proc[w].email = y

\* a verify-otp past its find_one holds a record of its own identifier and code
C8_OwnRecord ==
    \A w \in Workers :
        proc[w].pc \in {"verify_check", "verify_delete_expired", "verify_delete_valid"}
            => proc[w].rec.email = proc[w].email /\ proc[w].rec.code = proc[w].code

\* C8: no request-otp or verify-otp call made for X, whatever its outcome, changes
\* the records of another identifier Y, and verify-otp for Y accepts a code only
\* when a record of Y carries that code.
C8_NoInterference == []C8_OwnRecord /\ [][C8_Frame]_vars

C8_Witness ==
    \E x \in Emails : \E y \in Emails \ {x} :
        /\ ~sequential
        /\ issued[x] = 1
        /\ issued[y] = 1
        /\ minted[x] = 1
        /\ CountOf(store, x) = 0
        /\ CountOf(store, y) = 1

(* ------------------------------- C9 ----------------------------------- *)
\* C9: with several verify-otp requests for one identifier and code running
\* concurrently, a record created by one request-otp yields at most one token.
C9_OneTokenPerRecord == \A e \in Emails : minted[e] <= issued[e]

(* ------------------------------- C10 ---------------------------------- *)
\* C10: under any interleaving a record is removed only by a verify-otp that
\* submitted that record's identifier and code, or by a request-otp for the same
\* identifier; never by a verify-otp that matched a different, earlier code.
C10_Step ==
    \A d \in BagToSet(store) :
        CopiesIn(d, store') < CopiesIn(d, store)
            => \E w \in Workers :
                  /\ proc'[w] # proc[w]
                  /\ proc[w].email = d.email
                  /\ \/ proc[w].pc = "request_delete"
                     \/ /\ proc[w].pc \in {"verify_delete_expired", "verify_delete_valid"}
                        /\ proc[w].code = d.code

C10_RemovedByOwnCode == [][C10_Step]_vars

====
